---- MODULE Spec2Model ----
(***************************************************************************)
(* Throttler (src/src/throttler.c): a single-shot tool that parses limits  *)
(* from the command line, reads the byte counters of one interface from    *)
(* /proc/net/dev, and runs an action when a limit is exceeded.             *)
(*                                                                         *)
(* An `llu` (unsigned long long, 64 bits) is held as NLimbs base-2^10      *)
(* limbs, least significant first; the top limb carries the remaining 4    *)
(* bits, so every operation below is exact modulo 2^64.                    *)
(***************************************************************************)
EXTENDS Integers, Sequences, FiniteSets

\* ------------------------------------------------------------------ bounds
MaxDigits == 2      \* longest run of decimal digits drawn for a limit argument
MaxTail == 1        \* characters drawn after the first suffix character
MaxOpts == 2        \* options getopt_long hands out in one run
MaxLines == 2       \* lines in the statistics source
MaxNear == 2        \* counters drawn within this distance of 0 and of 2^64

\* ------------------------------------------------- llu: 64-bit arithmetic
Base == 2^10
NLimbs == 7
TopMod == 2^4

Limbs == 1..NLimbs

LimbMod(i) == IF i = NLimbs THEN TopMod ELSE Base

\* an int below 2^30 as an llu
ToLLU(n) == <<n % Base, (n \div Base) % Base, (n \div (Base * Base)) % Base, 0, 0, 0, 0>>

Zero64 == ToLLU(0)
One64 == ToLLU(1)
\* ULLONG_MAX
Max64 == <<Base - 1, Base - 1, Base - 1, Base - 1, Base - 1, Base - 1, TopMod - 1>>

RECURSIVE AddFrom(_, _, _, _)
AddFrom(a, b, i, carry) ==
    IF i > NLimbs THEN <<>>
    ELSE LET s == a[i] + b[i] + carry
         IN  <<s % LimbMod(i)>> \o AddFrom(a, b, i + 1, s \div LimbMod(i))

\* a + b on unsigned long long: the carry out of bit 63 is dropped
Add64(a, b) == AddFrom(a, b, 1, 0)

RECURSIVE ColumnSum(_, _, _, _)
ColumnSum(a, b, k, i) ==
    IF i > k THEN 0 ELSE a[i] * b[k + 1 - i] + ColumnSum(a, b, k, i + 1)

RECURSIVE MulFrom(_, _, _, _)
MulFrom(a, b, k, carry) ==
    IF k > NLimbs THEN <<>>
    ELSE LET s == carry + ColumnSum(a, b, k, 1)
         IN  <<s % LimbMod(k)>> \o MulFrom(a, b, k + 1, s \div LimbMod(k))

\* a * b on unsigned long long: the product is reduced modulo 2^64
Mul64(a, b) == MulFrom(a, b, 1, 0)

RECURSIVE GtFrom(_, _, _)
GtFrom(a, b, i) ==
    IF i = 0 THEN FALSE
    ELSE IF a[i] # b[i] THEN a[i] > b[i]
    ELSE GtFrom(a, b, i - 1)

\* a > b on unsigned long long
Gt64(a, b) == GtFrom(a, b, NLimbs)

\* 1ULL << (10 * k), for k in 0..4
Shl10(k) == <<IF k = 0 THEN 1 ELSE 0, IF k = 1 THEN 1 ELSE 0, IF k = 2 THEN 1 ELSE 0,
              IF k = 3 THEN 1 ELSE 0, IF k = 4 THEN 1 ELSE 0, 0, 0>>

\* ------------------------------------------------------------- characters
DigitChars == <<"0", "1", "2", "3", "4", "5", "6", "7", "8", "9">>
Digits == {DigitChars[i] : i \in 1..10}
DigitVal(c) == (CHOOSE i \in 1..10 : DigitChars[i] = c) - 1
IsDigit(c) == c \in Digits
IsSpace(c) == c = " "

\* ------------------------------------------------ Byte-Quantity Parser
\* get_unit_factor with the case 'T' label left out
get_unit_factor_NoUpperT(unit) ==
    IF unit \in {"k", "K"} THEN Shl10(1)
    ELSE IF unit \in {"m", "M"} THEN Shl10(2)
    ELSE IF unit \in {"g", "G"} THEN Shl10(3)
    ELSE IF unit = "t" THEN Shl10(4)
    ELSE One64

get_unit_factor(unit) ==
    IF unit \in {"k", "K"} THEN Shl10(1)
    ELSE IF unit \in {"m", "M"} THEN Shl10(2)
    ELSE IF unit \in {"g", "G"} THEN Shl10(3)
    ELSE IF unit \in {"t", "T"} THEN Shl10(4)
    ELSE One64

RECURSIVE SkipSpace(_, _)
SkipSpace(s, i) ==
    IF i <= Len(s) /\ IsSpace(s[i]) THEN SkipSpace(s, i + 1) ELSE i

\* the digits of s from position i on, accumulated as strtoull does
RECURSIVE ScanDigits(_, _, _)
ScanDigits(s, i, acc) ==
    IF i > Len(s) \/ ~IsDigit(s[i]) THEN [val |-> acc, next |-> i]
    ELSE ScanDigits(s, i + 1, Add64(Mul64(acc, ToLLU(10)), ToLLU(DigitVal(s[i]))))

\* sscanf(arg, "%llu%c", bytes, &unit): n is the return value (-1 is EOF),
\* bytes and unit are what the call leaves in its two targets
sscanf_llu_c(s, bytes, unit) ==
    LET i == SkipSpace(s, 1)
    IN  IF i > Len(s) THEN [n |-> -1, bytes |-> bytes, unit |-> unit]
        ELSE IF ~IsDigit(s[i]) THEN [n |-> 0, bytes |-> bytes, unit |-> unit]
        ELSE LET d == ScanDigits(s, i, Zero64)
             IN  IF d.next > Len(s) THEN [n |-> 1, bytes |-> d.val, unit |-> unit]
                 ELSE [n |-> 2, bytes |-> d.val, unit |-> s[d.next]]

\* get_bytes_formatted clearing its target when the scan fails
get_bytes_formatted_ZeroOnFail(s, bytes) ==
    LET r == sscanf_llu_c(s, bytes, "?")
    IN  IF r.n # 1 /\ r.n # 2 THEN [ret |-> 0, bytes |-> Zero64]
        ELSE IF r.n = 2 THEN [ret |-> 1, bytes |-> Mul64(r.bytes, get_unit_factor(r.unit))]
        ELSE [ret |-> 1, bytes |-> r.bytes]

\* get_bytes_formatted(arg, &bytes): ret is the return value, bytes the target after
get_bytes_formatted(s, bytes) ==
    LET r == sscanf_llu_c(s, bytes, "?")
    IN  IF r.n # 1 /\ r.n # 2 THEN [ret |-> 0, bytes |-> r.bytes]
        ELSE IF r.n = 2 THEN [ret |-> 1, bytes |-> Mul64(r.bytes, get_unit_factor(r.unit))]
        ELSE [ret |-> 1, bytes |-> r.bytes]

\* ------------------------------------------------------------ input sets
NULL == <<>>

Eth0 == <<"e", "t", "h", "0">>
Eth01 == <<"e", "t", "h", "0", "1">>
Eth == <<"e", "t", "h">>
Wlan0 == <<"w", "l", "a", "n", "0">>

\* interface names given on the command line and found in the source
Names == {Eth0, Eth01, Eth, Wlan0}
MainNames == {Eth0, Wlan0}

\* the action argument when present
Cmd == <<"e", "c", "h", "o">>

\* limit arguments of the full runs
MainArgs == {<<"1">>, <<"2">>, <<"x">>, <<>>}

\* counters near 0 and near 2^64
Near == {ToLLU(n) : n \in 0..MaxNear} \cup
        {<<Base - 1 - n, Base - 1, Base - 1, Base - 1, Base - 1, Base - 1, TopMod - 1>> :
            n \in 0..MaxNear}

\* a line of the statistics source: the leading token, whether a colon follows
\* it, how many numeric fields come next, and the 1st and 9th of them (the
\* other fields are read with %*llu and thrown away)
MkLine(name, colon, nf, f1, f9) ==
    [name |-> name, colon |-> colon, nf |-> nf, f1 |-> f1, f9 |-> f9]

Header == MkLine(<<"f", "a", "c", "e">>, FALSE, 0, Zero64, Zero64)

\* full runs: a header, then at most one interface line with any counters
MainFiles == {<<Header>>} \cup
             {<<Header, MkLine(n, TRUE, 16, rx, tx)>> : n \in MainNames, rx \in Near, tx \in Near}

\* reader runs: every line shape, line k carrying counters that name it
LineShapes == {<<FALSE, 16>>, <<TRUE, 8>>, <<TRUE, 9>>, <<TRUE, 16>>}
LineAt(k, name, shape) == MkLine(name, shape[1], shape[2], ToLLU(10 * k + 1), ToLLU(10 * k + 9))

RECURSIVE FilesOfLen(_)
FilesOfLen(k) ==
    IF k = 0 THEN {<<>>}
    ELSE {Append(f, LineAt(k, n, sh)) : f \in FilesOfLen(k - 1), n \in Names, sh \in LineShapes}

ReaderFiles == UNION {FilesOfLen(k) : k \in 0..MaxLines}

\* parser runs: digits, then nothing or a suffix character and a short tail
SuffixChars == {"k", "K", "m", "M", "g", "G", "t", "T", "b", "x", " ", "."}
TailChars == {"k", "7"}

RECURSIVE StringsOver(_, _)
StringsOver(chars, n) ==
    IF n = 0 THEN {<<>>}
    ELSE LET shorter == StringsOver(chars, n - 1)
         IN  shorter \cup {Append(t, c) : t \in shorter, c \in chars}

\* 2^24 - 1 and 2^24: the largest value that fits after a 2^40 suffix, and the next
BigDigits == {<<"1", "6", "7", "7", "7", "2", "1", "5">>, <<"1", "6", "7", "7", "7", "2", "1", "6">>}

DigitStrings == StringsOver(Digits, MaxDigits) \cup BigDigits

ParserArgs == DigitStrings \cup
              {d \o <<c>> \o t : d \in DigitStrings, c \in SuffixChars,
                                t \in StringsOver(TailChars, MaxTail)}

\* ------------------------------------------------------------------ state
VARIABLES
    pc,          \* where the process is; the exit_* values name the exit taken
    options,     \* the global struct options_t
    opt,         \* parse_cmd_line: what getopt_long returned last
    nopts,       \* options handed out so far
    out,         \* lines written to standard output
    file,        \* the lines of /proc/net/dev, once opened
    pos,         \* lines fgets has returned
    fileOpen,    \* the FILE* is open and not yet fclosed
    bytes_rx,    \* main's locals; <<>> while indeterminate
    bytes_tx,
    calls,       \* calls of system()
    sysarg,      \* the argument of the last system() call
    sysret,      \* what the last system() call returned
    exitCode,    \* the process exit status, -1 while running
    arg,         \* parser runs: the argument string
    res          \* parser runs: the result of get_bytes_formatted

vars == <<pc, options, opt, nopts, out, file, pos, fileOpen, bytes_rx, bytes_tx,
          calls, sysarg, sysret, exitCode, arg, res>>

readerVars == <<file, pos, fileOpen, bytes_rx, bytes_tx>>
actionVars == <<calls, sysarg, sysret>>
parserVars == <<arg, res>>

NoRes == [ret |-> -1, bytes |-> <<>>]

\* static struct options_t options = {0, 0, 0, NULL, NULL}
InitOptions == [max_up |-> Zero64, max_down |-> Zero64, max_total |-> Zero64,
                interface |-> NULL, action |-> NULL]

InitRest ==
    /\ opt = "none" /\ nopts = 0 /\ out = <<>>
    /\ file = <<>> /\ pos = 0 /\ fileOpen = FALSE
    /\ bytes_rx = <<>> /\ bytes_tx = <<>>
    /\ calls = 0 /\ sysarg = NULL /\ sysret = 0
    /\ exitCode = -1

Init ==
    /\ pc = "parse"
    /\ options = InitOptions
    /\ InitRest
    /\ arg = <<>> /\ res = NoRes

Exit(where, code) ==
    /\ pc' = where
    /\ exitCode' = code

\* ---------------------------------------------------------- parse_cmd_line
LimitOpts == {"u", "d", "t"}

LimitField(o) == IF o = "u" THEN "max_up" ELSE IF o = "d" THEN "max_down" ELSE "max_total"

\* the 't' case prints the download text too
InvalidMsg(o) == IF o = "u" THEN <<"Invalid argument for max upload">>
                 ELSE <<"Invalid argument for max download">>

\* getopt_long returns 'u', 'd' or 't' with optarg = a
OptLimit ==
    /\ pc = "parse"
    /\ nopts < MaxOpts
    /\ \E o \in LimitOpts, a \in MainArgs :
          LET r == get_bytes_formatted(a, options[LimitField(o)])
          IN  /\ opt' = o
              /\ options' = [options EXCEPT ![LimitField(o)] = r.bytes]
              /\ out' = IF r.ret = 0 THEN Append(out, InvalidMsg(o)) ELSE out
    /\ nopts' = nopts + 1
    /\ UNCHANGED <<pc, exitCode, readerVars, actionVars, parserVars>>

\* getopt_long returns 'v'
OptVersion ==
    /\ pc = "parse"
    /\ nopts < MaxOpts
    /\ opt' = "v"
    /\ nopts' = nopts + 1
    /\ out' = Append(out, <<"Throttler 0.1">>)
    /\ Exit("exit_version", 0)
    /\ UNCHANGED <<options, readerVars, actionVars, parserVars>>

\* getopt_long returns 'h'
OptHelp ==
    /\ pc = "parse"
    /\ nopts < MaxOpts
    /\ opt' = "h"
    /\ nopts' = nopts + 1
    /\ out' = Append(out, <<"Usage">>)
    /\ Exit("exit_help", 0)
    /\ UNCHANGED <<options, readerVars, actionVars, parserVars>>

\* getopt_long returns '?': an unknown option or a missing argument
OptUnknown ==
    /\ pc = "parse"
    /\ nopts < MaxOpts
    /\ opt' = "?"
    /\ nopts' = nopts + 1
    /\ out' = Append(out, <<"?? getopt returned character code ??">>)
    /\ UNCHANGED <<pc, exitCode, options, readerVars, actionVars, parserVars>>

\* getopt_long returns -1; rest holds the arguments that are no options
Positional ==
    /\ pc = "parse"
    /\ opt' = "-1"
    /\ \E rest \in {<<>>} \cup {<<n>> : n \in MainNames} \cup {<<n, Cmd>> : n \in MainNames} :
          IF Len(rest) > 0
          THEN /\ options' = [options EXCEPT !.interface = rest[1],
                                             !.action = IF Len(rest) > 1 THEN rest[2] ELSE @]
               /\ pc' = "open"
               /\ UNCHANGED <<out, exitCode>>
          ELSE /\ out' = Append(out, <<"Missing interface specifier">>)
               /\ Exit("exit_missing", 1)
               /\ UNCHANGED options
    /\ UNCHANGED <<nopts, readerVars, actionVars, parserVars>>

\* ----------------------------------------------------------- get_dev_rx_tx
RECURSIVE IsPrefixFrom(_, _, _)
IsPrefixFrom(lit, text, i) ==
    IF i > Len(lit) THEN TRUE
    ELSE IF i > Len(text) \/ lit[i] # text[i] THEN FALSE
    ELSE IsPrefixFrom(lit, text, i + 1)

\* sscanf_line with the colon missing from the format
sscanf_line_NoColon(line, interface, rx, tx) ==
    LET text == line.name \o <<IF line.colon THEN ":" ELSE " ">>
        literalOk == IsPrefixFrom(interface, text, 1)
    IN  IF ~literalOk THEN [n |-> 0, rx |-> rx, tx |-> tx]
        ELSE IF line.nf = 0 THEN [n |-> -1, rx |-> rx, tx |-> tx]
        ELSE IF line.nf < 9 THEN [n |-> 1, rx |-> line.f1, tx |-> tx]
        ELSE [n |-> 2, rx |-> line.f1, tx |-> line.f9]

\* sscanf(buf, " <interface>: %llu %*llu x7 %llu %*llu x7", bytes_rx, bytes_tx):
\* the leading blank skips the line's indentation, the characters of the
\* interface and the colon must come next one by one, and each %llu needs a
\* numeric field; n counts the two assigning conversions that were made
sscanf_line(line, interface, rx, tx) ==
    LET text == line.name \o <<IF line.colon THEN ":" ELSE " ">>
        lit == interface \o <<":">>
        literalOk == IsPrefixFrom(lit, text, 1)
    IN  IF ~literalOk THEN [n |-> 0, rx |-> rx, tx |-> tx]
        ELSE IF line.nf = 0 THEN [n |-> -1, rx |-> rx, tx |-> tx]
        ELSE IF line.nf < 9 THEN [n |-> 1, rx |-> line.f1, tx |-> tx]
        ELSE [n |-> 2, rx |-> line.f1, tx |-> line.f9]

\* fopen(NETFILE, "r")
Open(files) ==
    /\ pc = "open"
    /\ \/ /\ \E f \in files : file' = f
          /\ fileOpen' = TRUE
          /\ pc' = "scan"
          /\ UNCHANGED <<out, exitCode>>
       \/ /\ out' = Append(out, <<"Error opening /proc/net/dev, permissions?">>)
          /\ Exit("exit_open", 1)
          /\ UNCHANGED <<file, fileOpen>>
    /\ UNCHANGED <<options, opt, nopts, pos, bytes_rx, bytes_tx, actionVars, parserVars>>

\* fgets returns a line; on a match: goto end, fclose, back in main
ReadLine ==
    /\ pc = "scan"
    /\ pos < Len(file)
    /\ LET r == sscanf_line(file[pos + 1], options.interface, bytes_rx, bytes_tx)
       IN  /\ bytes_rx' = r.rx
           /\ bytes_tx' = r.tx
           /\ IF r.n = 2
              THEN fileOpen' = FALSE /\ pc' = "eval"
              ELSE UNCHANGED <<fileOpen, pc>>
    /\ pos' = pos + 1
    /\ UNCHANGED <<options, opt, nopts, out, file, exitCode, actionVars, parserVars>>

\* fgets returns NULL: the diagnostic and exit(1); fclose is not reached
NotFound ==
    /\ pc = "scan"
    /\ pos = Len(file)
    /\ out' = Append(out, <<"Could not find interface", options.interface>>)
    /\ Exit("exit_notfound", 1)
    /\ UNCHANGED <<options, opt, nopts, readerVars, actionVars, parserVars>>

\* ---------------------------------------------- evaluate_bytes, perform_action
NoLimits(o) == o.max_up = Zero64 /\ o.max_down = Zero64 /\ o.max_total = Zero64

\* the condition of the second if of evaluate_bytes
Exceeded(o, rx, tx) ==
    \/ Gt64(o.max_up, Zero64) /\ Gt64(tx, o.max_up)
    \/ Gt64(o.max_down, Zero64) /\ Gt64(rx, o.max_down)
    \/ Gt64(o.max_total, Zero64) /\ Gt64(Add64(tx, rx), o.max_total)

\* StatusLine with the two counters in each other's place
StatusLine_Swapped(o, rx, tx) == <<"Interface", o.interface, "Down", tx, "Up", rx>>

\* printf("Interface %s: Down: %llu, Up: %llu\n", ...)
StatusLine(o, rx, tx) == <<"Interface", o.interface, "Down", rx, "Up", tx>>

\* evaluate_bytes up to the call of system(), or to the end of main
Evaluate ==
    /\ pc = "eval"
    /\ IF NoLimits(options)
       THEN /\ out' = Append(out, StatusLine(options, bytes_rx, bytes_tx))
            /\ Exit("exit_status", 0)
            /\ UNCHANGED actionVars
       ELSE IF Exceeded(options, bytes_rx, bytes_tx)
       THEN /\ pc' = "action"
            /\ calls' = calls + 1
            /\ sysarg' = options.action
            /\ UNCHANGED <<out, exitCode, sysret>>
       ELSE /\ Exit("return", 0)
            /\ UNCHANGED <<out, actionVars>>
    /\ UNCHANGED <<options, opt, nopts, readerVars, parserVars>>

\* what system() can return: the action's status, or -1
SysStatuses == {-1, 0, 1}

\* ActionReturns with main returning what system() returned
ActionReturns_StatusAsExit ==
    /\ pc = "action"
    /\ \E st \in SysStatuses : sysret' = st /\ Exit("return", st)
    /\ UNCHANGED <<options, opt, nopts, out, readerVars, calls, sysarg, parserVars>>

\* system() returns, its value is dropped, main returns 0
ActionReturns ==
    /\ pc = "action"
    /\ \E st \in SysStatuses : sysret' = st
    /\ Exit("return", 0)
    /\ UNCHANGED <<options, opt, nopts, out, readerVars, calls, sysarg, parserVars>>

\* ------------------------------------------------------------ full runs
Next ==
    \/ OptLimit \/ OptVersion \/ OptHelp \/ OptUnknown \/ Positional
    \/ Open(MainFiles) \/ ReadLine \/ NotFound
    \/ Evaluate \/ ActionReturns

Spec == Init /\ [][Next]_vars

\* ---------------------------------------------------- reader runs
InitReader ==
    /\ pc = "open"
    /\ options \in {[InitOptions EXCEPT !.interface = n] : n \in Names}
    /\ InitRest
    /\ arg = <<>> /\ res = NoRes

NextReader == Open(ReaderFiles) \/ ReadLine \/ NotFound

SpecReader == InitReader /\ [][NextReader]_vars

\* ---------------------------------------------------- parser runs
InitParser ==
    /\ pc = "parser"
    /\ options = InitOptions
    /\ InitRest
    /\ arg \in ParserArgs /\ res = NoRes

ParseArg ==
    /\ pc = "parser"
    /\ res' = get_bytes_formatted(arg, <<>>)
    /\ pc' = "parsed"
    /\ UNCHANGED <<options, opt, nopts, out, readerVars, actionVars, exitCode, arg>>

NextParser == ParseArg

SpecParser == InitParser /\ [][NextParser]_vars

\* ====================================================================
\* Properties
\* ====================================================================

Last(q) == q[Len(q)]

ExitPcs == {"exit_version", "exit_help", "exit_missing", "exit_open",
            "exit_notfound", "exit_status", "return"}

\* a line for the interface: its name, a colon, and numeric fields up to the 9th
IsLineOf(line, interface) == line.name = interface /\ line.colon /\ line.nf >= 9

\* the mathematical sum a + b is 2^64 or more
RECURSIVE CarryFrom(_, _, _, _)
CarryFrom(a, b, i, carry) ==
    IF i > NLimbs THEN carry
    ELSE CarryFrom(a, b, i + 1, (a[i] + b[i] + carry) \div LimbMod(i))

SumOverflows(a, b) == CarryFrom(a, b, 1, 0) > 0

\* the three conditions of the Threshold Evaluator, the sum taken in unbounded
\* arithmetic
LimitBreached(o, rx, tx) ==
    \/ o.max_up # Zero64 /\ Gt64(tx, o.max_up)
    \/ o.max_down # Zero64 /\ Gt64(rx, o.max_down)
    \/ o.max_total # Zero64 /\ (SumOverflows(tx, rx) \/ Gt64(Add64(tx, rx), o.max_total))

\* --------------------------------------------------------------------
\* C1: in threshold mode the action trigger is invoked if and only if
\* tx > max_upload, rx > max_download or tx + rx > max_total holds for a
\* nonzero limit (strict comparisons, true sum); otherwise the run ends
\* with no output and no action.
C1_FiresIffBreached ==
    [][(pc = "eval" /\ ~NoLimits(options)) =>
          IF LimitBreached(options, bytes_rx, bytes_tx)
          THEN pc' = "action" /\ calls' = calls + 1
          ELSE pc' = "return" /\ exitCode' = 0 /\ out' = out /\ calls' = calls]_vars

\* --------------------------------------------------------------------
\* C2: with all three limits zero after parsing, the evaluator prints the
\* status line with the counters of the selected line, exits with 0 and
\* never calls the action, configured or not; nothing follows that exit.
C2_NoThresholdPrintsAndStops ==
    [][/\ (pc = "eval" /\ NoLimits(options)) =>
            /\ pc' = "exit_status"
            /\ out' = Append(out, <<"Interface", options.interface,
                                    "Down", file[pos].f1, "Up", file[pos].f9>>)
            /\ exitCode' = 0
            /\ calls' = 0
       /\ pc # "exit_status"]_vars

C2_Witness ==
    /\ pc = "exit_status"
    /\ options.action = Cmd
    /\ Last(out) = <<"Interface", Wlan0, "Down", ToLLU(2), "Up", Max64>>
    /\ calls = 0

\* --------------------------------------------------------------------
\* C3: the exit code is 1 exactly when the interface argument is missing,
\* the source could not be opened, or no line of the source is a line of
\* the interface; every other finished run exits with 0, whatever the
\* action returned.
MissingInterface == opt = "-1" /\ options.interface = NULL
SourceUnreadable ==
    /\ options.interface # NULL
    /\ file = <<>>
    /\ out # <<>>
    /\ Last(out) = <<"Error opening /proc/net/dev, permissions?">>
InterfaceAbsent ==
    /\ options.interface # NULL
    /\ file # <<>>
    /\ \A i \in 1..Len(file) : ~IsLineOf(file[i], options.interface)

C3_ExitCodes ==
    IF pc \in ExitPcs
    THEN exitCode = IF MissingInterface \/ SourceUnreadable \/ InterfaceAbsent THEN 1 ELSE 0
    ELSE exitCode = -1

C3_Witness == pc = "return" /\ calls = 1 /\ sysret = 1 /\ exitCode = 0

\* --------------------------------------------------------------------
\* C4: the reader returns the 1st and 9th numeric field of the first line
\* of the interface (its exact name, then a colon); lines of other names,
\* of names that only start with the queried one, lines without the colon
\* or without a 9th field are skipped, reading stops at the selected line,
\* and a source with no line of the interface ends in the lookup failure.
FirstLineOf(f, interface) ==
    CHOOSE i \in 1..Len(f) :
        /\ IsLineOf(f[i], interface)
        /\ \A j \in 1..(i - 1) : ~IsLineOf(f[j], interface)

C4_ReaderSelectsFirstExactLine ==
    /\ pc = "eval" =>
          /\ \E i \in 1..Len(file) : IsLineOf(file[i], options.interface)
          /\ pos = FirstLineOf(file, options.interface)
          /\ bytes_rx = file[pos].f1
          /\ bytes_tx = file[pos].f9
    /\ pc = "scan" => \A i \in 1..pos : ~IsLineOf(file[i], options.interface)
    /\ pc = "exit_notfound" => \A i \in 1..Len(file) : ~IsLineOf(file[i], options.interface)

C4_Witness ==
    /\ pc = "eval"
    /\ options.interface = Eth0
    /\ Len(file) = 2
    /\ file[1].name = Eth01 /\ file[1].colon /\ file[1].nf = 16
    /\ bytes_rx = ToLLU(21) /\ bytes_tx = ToLLU(29)

\* --------------------------------------------------------------------
\* C5: digits v followed by a suffix character give v * 2^10 for k K,
\* v * 2^20 for m M, v * 2^30 for g G, v * 2^40 for t T and v for any other
\* character; digits alone give v (whenever the product fits in 64 bits).
RECURSIVE LeadingDigits(_)
LeadingDigits(s) ==
    IF s = <<>> \/ Head(s) \notin Digits THEN <<>>
    ELSE <<Head(s)>> \o LeadingDigits(Tail(s))

RECURSIVE DecimalInt(_)
DecimalInt(d) ==
    IF d = <<>> THEN 0
    ELSE 10 * DecimalInt(SubSeq(d, 1, Len(d) - 1)) + DigitVal(Last(d))

SuffixExponent(c) ==
    CASE c \in {"k", "K"} -> 1
      [] c \in {"m", "M"} -> 2
      [] c \in {"g", "G"} -> 3
      [] c \in {"t", "T"} -> 4
      [] OTHER -> 0

\* n * 2^(10 * k) is below 2^64, for n below 2^30 and k up to 4
ProductFits(n, k) == k < 4 \/ n < 2^24

\* v * 2^(10 * k), for a product that fits
TimesUnit(v, k) ==
    LET e(i) == IF i > k THEN v[i - k] ELSE 0
    IN  <<e(1), e(2), e(3), e(4), e(5), e(6), e(7)>>

C5_ParserScalesBySuffix ==
    (pc = "parsed" /\ LeadingDigits(arg) # <<>>) =>
        LET d == LeadingDigits(arg)
            n == DecimalInt(d)
            k == IF Len(arg) > Len(d) THEN SuffixExponent(arg[Len(d) + 1]) ELSE 0
        IN  ProductFits(n, k) => res = [ret |-> 1, bytes |-> TimesUnit(ToLLU(n), k)]

C5_Witness ==
    /\ pc = "parsed"
    /\ arg = <<"1", "6", "7", "7", "7", "2", "1", "5", "T">>
    /\ res = [ret |-> 1, bytes |-> <<0, 0, 0, 0, Base - 1, Base - 1, TopMod - 1>>]

\* --------------------------------------------------------------------
\* C6 as stated: after an option whose argument the parser rejects, the
\* option's field is zero, the other two are unchanged, parsing goes on.
RejectedStep ==
    /\ pc = "parse"
    /\ nopts' = nopts + 1
    /\ opt' \in LimitOpts
    /\ out' = Append(out, InvalidMsg(opt'))

C6_RejectedLimitIsZero ==
    [][RejectedStep =>
          /\ options' = [options EXCEPT ![LimitField(opt')] = Zero64]
          /\ pc' = "parse" /\ exitCode' = -1]_vars

\* C6 amended: after an option whose argument the parser rejects, the
\* option's field holds what it held before the option (zero when no earlier
\* occurrence set it), the other two are unchanged, parsing goes on.
C6_RejectedLimitKeepsValue ==
    [][RejectedStep =>
          /\ options' = options
          /\ pc' = "parse" /\ exitCode' = -1]_vars

C6_Witness ==
    /\ pc = "parse"
    /\ opt = "u"
    /\ out # <<>> /\ Last(out) = InvalidMsg("u")
    /\ options.max_up = One64

\* --------------------------------------------------------------------
\* C7: when the true sum of the two counters is 2^64 or more and max_total
\* is nonzero, the evaluator fires.
C7_OverflowingSumFires ==
    (/\ pc = "return"
     /\ options.max_total # Zero64
     /\ SumOverflows(bytes_tx, bytes_rx)) => calls = 1

\* --------------------------------------------------------------------
\* C8: once opened, the source handle is open only during the read loop:
\* it is closed on every way out of the loop, match or no match, and never
\* open in the evaluator or while the action runs.
C8_HandleOpenOnlyInLoop == fileOpen => pc = "scan"

\* --------------------------------------------------------------------
\* C9: the action is invoked at most once, and only after parsing ended,
\* a line of the interface was read, the source was closed and the
\* evaluator's condition held; a breached nonzero limit with an action
\* configured gives exactly one invocation and exit code 0; no run ending
\* in a fatal error, help or version invokes it.
C9_ActionAtMostOnceAndInOrder ==
    /\ calls <= 1
    /\ calls = 1 =>
          /\ opt = "-1"
          /\ file # <<>> /\ pos > 0 /\ IsLineOf(file[pos], options.interface)
          /\ ~fileOpen
          /\ pc \in {"action", "return"}
    /\ (/\ pc = "return"
        /\ options.action # NULL
        /\ ~NoLimits(options)
        /\ LimitBreached(options, bytes_rx, bytes_tx)) => (calls = 1 /\ exitCode = 0)
    /\ pc \in ExitPcs \ {"return"} => calls = 0

\* --------------------------------------------------------------------
\* C10: a breached nonzero limit invokes the action trigger whether or not
\* an action was given; with none, system() gets the null string, and the
\* run exits with 0.
C10_FiresWithoutAction ==
    (/\ pc = "return"
     /\ ~NoLimits(options)
     /\ LimitBreached(options, bytes_rx, bytes_tx)) =>
        (calls = 1 /\ sysarg = options.action /\ exitCode = 0)

====
